---- MODULE Spec2Model ----
(***************************************************************************)
(* A model of the sherpa data layer (database.go): the relational store    *)
(* declared in architecture.md section 4, the content-piece operations     *)
(* createContentPiece / updateContentPiece / deleteContentPiece, and the   *)
(* schema editor's updateTableSchema.                                      *)
(*                                                                         *)
(* The store is modelled with the constraints architecture.md declares    *)
(* (primary keys, AUTO_INCREMENT, ON DELETE CASCADE / RESTRICT), as        *)
(* MariaDB/InnoDB applies them.  Every db.Exec may also fail for a reason  *)
(* of the store's own (connectivity): the "fault" input of the actions.    *)
(***************************************************************************)
EXTENDS Integers, Sequences, FiniteSets, TLC

\* ------------------------------------------------------------------------
\* Bounds
\* ------------------------------------------------------------------------
\* Largest entity id the AUTO_INCREMENT counter hands out in a run.
MaxId == 7
\* Largest number of column descriptors in one schema submission.
MaxCols == 2
\* Largest id a create takes before the sample data is seeded.
MaxEarlyCreates == 2

Ids == 1..MaxId

\* The request-handling goroutines that may run createContentPiece at once.
Handlers == {"h1", "h2"}

\* title/class pairs a caller submits (createPieceHandler / updatePieceHandler)
PieceInputs ==
  { [title |-> "About This System", class |-> "blog_post"],
    [title |-> "Draft", class |-> "tweet"] }

\* sort keys used for composition edges
SortKeys == {100, 200}

VARIABLES
  entity,            \* table entity: the set of ids with a (committed) row
  autoInc,           \* entity's AUTO_INCREMENT counter: the next id handed out
  content_piece,     \* table content_piece: id -> [title, class]
  cpc,               \* table content_piece_contlets: set of edges
  contlet_paragraph, \* table contlet_paragraph: ids with a row
  contlet_image,     \* table contlet_image: ids with a row
  contlet_heading,   \* table contlet_heading: ids with a row
  taxonomy,          \* table taxonomy: ids with a row
  tag,               \* table tag: id -> taxonomy_id
  entity_tags,       \* table entity_tags: set of <<entity_id, tag_id>>
  link_class,        \* table link_class: the names with a row
  entity_relationships, \* table entity_relationships: triple -> number of rows
  lk,                \* per handler: its link call (spec 4.6)
  pc,                \* per handler: position inside createContentPiece
  txId,              \* per handler: id its open transaction inserted (0: none)
  txIn,              \* per handler: the title/class of the running create
  floor,             \* per handler: largest id returned before the call began
  returned,          \* ids returned by successful creates, in return order
  last,              \* outcome of the operation that completed last, with
                     \* the value a read returned
  schema,            \* per table: column name -> physical type text
  sres               \* outcome of the last updateTableSchema call

storeVars == <<entity, autoInc, content_piece, cpc, contlet_paragraph,
               contlet_image, contlet_heading, taxonomy, tag, entity_tags,
               link_class, entity_relationships>>
txVars == <<pc, txId, txIn, floor>>
schemaVars == <<schema, sres>>
vars == <<storeVars, txVars, returned, last, schemaVars, lk>>

Max(S) == IF S = {} THEN 0 ELSE CHOOSE m \in S : \A x \in S : x <= m

\* ------------------------------------------------------------------------
\* The store after construction (main: createSchemaFromArchitecture, then
\* seedSampleData(!noSampleData))
\* ------------------------------------------------------------------------
NoInput == [title |-> "", class |-> ""]
\* a handler that runs no link call
NoLink == [pc |-> "idle", triple |-> <<>>, err |-> "none", fresh |-> FALSE]
\* what a call that reads nothing hands back
NoOut == [piece |-> <<>>, rows |-> <<>>]
NoResult == [op |-> "none", id |-> 0, err |-> "nil", cause |-> "none", out |-> NoOut]

\* seedSampleData(true) on the fresh database: taxonomy 1 "Technology",
\* tag 2 "Go", piece 3 "About This System" tagged with 2, heading 4 at sort
\* key 100 and paragraph 5 at sort key 200.
SeededStore ==
  /\ entity = 1..5
  /\ autoInc = 6
  /\ content_piece = (3 :> [title |-> "About This System", class |-> "blog_post"])
  /\ cpc = { [content_piece_id |-> 3, contlet_id |-> 4, sort_order |-> 100],
             [content_piece_id |-> 3, contlet_id |-> 5, sort_order |-> 200] }
  /\ contlet_paragraph = {5}
  /\ contlet_image = {}
  /\ contlet_heading = {4}
  /\ taxonomy = {1}
  /\ tag = (2 :> 1)
  /\ entity_tags = {<<3, 2>>}
  /\ link_class = {}
  /\ entity_relationships = <<>>

\* main() seeds the sample data unless --no-sample-data is given
InitStore == SeededStore

InitTx ==
  /\ pc = [h \in Handlers |-> "idle"]
  /\ txId = [h \in Handlers |-> 0]
  /\ txIn = [h \in Handlers |-> NoInput]
  /\ floor = [h \in Handlers |-> 0]
  /\ returned = <<>>
  /\ last = NoResult
  /\ lk = [h \in Handlers |-> NoLink]

\* ------------------------------------------------------------------------
\* Store rules declared by the schema
\* ------------------------------------------------------------------------
Pieces == DOMAIN content_piece
Tags == DOMAIN tag
Contlets == contlet_paragraph \cup contlet_image \cup contlet_heading

\* ids inserted by a transaction that is still open: their rows are locked,
\* and another statement that addresses them waits for the transaction's end
PendingIds == { txId[h] : h \in { g \in Handlers : txId[g] /= 0 } }

\* content_piece_contlets.contlet_id REFERENCES entity(id) ON DELETE RESTRICT
EdgesRestricting(id) == { e \in cpc : e.contlet_id = id }

\* faulty variant: the taxonomy reference of tag does not restrict the delete
TagsRestrictingNone(id) == {}

\* tag.taxonomy_id REFERENCES taxonomy(id) ON DELETE RESTRICT: reached when
\* the delete of the entity cascades to its taxonomy row
TagsRestricting(id) == IF id \in taxonomy THEN { t \in Tags : tag[t] = id } ELSE {}

\* faulty variant: the contlet reference does not restrict the delete
DeleteRestrictedTagsOnly(id) == TagsRestricting(id) /= {}

\* the store rejects DELETE FROM entity WHERE id = ? (error 1451)
DeleteRestricted(id) == EdgesRestricting(id) /= {} \/ TagsRestricting(id) /= {}

\* faulty variant: the piece reference does not cascade
EdgesCascadedNone(id) == {}

\* content_piece_contlets.content_piece_id REFERENCES content_piece(id)
\* ON DELETE CASCADE: the edges that go with the piece row
EdgesCascaded(id) == IF id \in Pieces THEN { e \in cpc : e.content_piece_id = id } ELSE {}

\* entity_tags: both columns ON DELETE CASCADE
EntityTagsCascaded(id) ==
  { et \in entity_tags : et[1] = id \/ (id \in Tags /\ et[2] = id) }

Restrict(f, S) == [x \in S |-> f[x]]

\* entity_relationships: subject_id and object_id REFERENCES entity(id) ON
\* DELETE CASCADE: the rows that stay when the entity id goes
RelationshipsKept(id) ==
  Restrict(entity_relationships,
           { t \in DOMAIN entity_relationships : t[1] /= id /\ t[3] /= id })

\* faulty variant: the class tables' references do not cascade
CascadeDeleteEntityOnly(id) ==
  /\ entity' = entity \ {id}
  /\ UNCHANGED <<autoInc, content_piece, cpc, contlet_paragraph, contlet_image,
                 contlet_heading, taxonomy, tag, entity_tags, link_class, entity_relationships>>

\* FOREIGN KEY (id) REFERENCES entity(id) ON DELETE CASCADE of every class table
CascadeDelete(id) ==
  /\ entity' = entity \ {id}
  /\ content_piece' = Restrict(content_piece, Pieces \ {id})
  /\ cpc' = cpc \ EdgesCascaded(id)
  /\ contlet_paragraph' = contlet_paragraph \ {id}
  /\ contlet_image' = contlet_image \ {id}
  /\ contlet_heading' = contlet_heading \ {id}
  /\ taxonomy' = taxonomy \ {id}
  /\ tag' = Restrict(tag, Tags \ {id})
  /\ entity_tags' = entity_tags \ EntityTagsCascaded(id)
  /\ entity_relationships' = RelationshipsKept(id)
  /\ UNCHANGED <<autoInc, link_class>>

Result(op, id, err, cause) ==
  [op |-> op, id |-> id, err |-> err, cause |-> cause, out |-> NoOut]

\* the outcome of a read: the error and the value it returns with it
Answer(op, id, err, cause, out) ==
  [op |-> op, id |-> id, err |-> err, cause |-> cause, out |-> out]

\* ------------------------------------------------------------------------
\* createContentPiece: one transaction, run by a handler step by step
\* ------------------------------------------------------------------------
\* db.Begin()
Begin(h, in, fault) ==
  /\ pc[h] = "idle"
  /\ autoInc + Cardinality({ g \in Handlers : pc[g] = "begun" }) <= MaxId
  /\ IF fault
       THEN /\ last' = Result("create", 0, "BeginFailed", "StoreFault")
            /\ UNCHANGED <<txVars>>
       ELSE /\ pc' = [pc EXCEPT ![h] = "begun"]
            /\ txIn' = [txIn EXCEPT ![h] = in]
            /\ floor' = [floor EXCEPT ![h] = Max({ returned[i].id : i \in DOMAIN returned })]
            /\ UNCHANGED <<txId, last>>
  /\ UNCHANGED <<storeVars, returned, schemaVars, lk>>

\* the call returns: the handler holds no transaction any more
EndTx(h) ==
  /\ pc' = [pc EXCEPT ![h] = "idle"]
  /\ txId' = [txId EXCEPT ![h] = 0]
  /\ txIn' = [txIn EXCEPT ![h] = NoInput]
  /\ floor' = [floor EXCEPT ![h] = 0]

\* faulty variant: the entity insert is not undone
RollbackKeepsEntity(h) ==
  /\ EndTx(h)
  /\ entity' = IF txId[h] /= 0 THEN entity \cup {txId[h]} ELSE entity
  /\ content_piece' = content_piece

\* tx.Rollback(), or a failed tx.Commit(): nothing the transaction wrote
\* reaches the tables
Rollback(h) ==
  /\ EndTx(h)
  /\ entity' = entity
  /\ content_piece' = content_piece

\* faulty variant: the id is computed as the largest stored id plus one
AllocateIdMaxPlusOne == Max(entity) + 1

\* the id INSERT INTO entity () VALUES () gives the new row
\* (res.LastInsertId(): the AUTO_INCREMENT counter)
AllocateId == autoInc

\* tx.Exec("INSERT INTO entity () VALUES ()"); a failed insert may or may not
\* have consumed a counter value
InsertEntity(h, fault, burn) ==
  /\ pc[h] = "begun"
  /\ IF fault
       THEN /\ Rollback(h)
            /\ autoInc' = IF burn THEN autoInc + 1 ELSE autoInc
            /\ last' = Result("create", 0, "CreateEntityFailed", "StoreFault")
       ELSE /\ burn = FALSE
            /\ txId' = [txId EXCEPT ![h] = AllocateId]
            /\ autoInc' = autoInc + 1
            /\ pc' = [pc EXCEPT ![h] = "entityInserted"]
            /\ UNCHANGED <<txIn, floor, last, entity, content_piece>>
  /\ UNCHANGED <<cpc, contlet_paragraph, contlet_image,
                 contlet_heading, taxonomy, tag, entity_tags,
                 link_class, entity_relationships, returned, schemaVars, lk>>

\* tx.Exec("INSERT INTO content_piece (id, title, class) VALUES (?, ?, ?)")
InsertPiece(h, fault) ==
  /\ pc[h] = "entityInserted"
  /\ IF fault
       THEN /\ Rollback(h)
            /\ last' = Result("create", 0, "InsertPieceFailed", "StoreFault")
       ELSE /\ pc' = [pc EXCEPT ![h] = "pieceInserted"]
            /\ UNCHANGED <<txId, txIn, floor, last, entity, content_piece>>
  /\ UNCHANGED <<autoInc, cpc, contlet_paragraph, contlet_image, contlet_heading,
                 taxonomy, tag, entity_tags,
                 link_class, entity_relationships, returned, schemaVars, lk>>

\* what a committed createContentPiece transaction writes
CommitRows(h) ==
  /\ entity' = entity \cup {txId[h]}
  /\ content_piece' = content_piece @@ (txId[h] :> txIn[h])

\* tx.Commit(): "ok", "failed" (nothing committed) or "lostAck" (the store
\* committed, the caller got an error)
Commit(h, outcome) ==
  /\ pc[h] = "pieceInserted"
  /\ IF outcome = "failed" THEN Rollback(h) ELSE CommitRows(h) /\ EndTx(h)
  /\ IF outcome = "ok"
       THEN /\ returned' = Append(returned, [id |-> txId[h], floor |-> floor[h]])
            /\ last' = Result("create", txId[h], "nil", "none")
       ELSE /\ UNCHANGED returned
            /\ last' = Result("create", 0, "CommitFailed", "StoreFault")
  /\ UNCHANGED <<autoInc, cpc, contlet_paragraph, contlet_image, contlet_heading,
                 taxonomy, tag, entity_tags, link_class, entity_relationships, schemaVars, lk>>

\* ------------------------------------------------------------------------
\* updateContentPiece, deleteContentPiece: one statement each
\* ------------------------------------------------------------------------
\* UPDATE content_piece SET title = ?, class = ? WHERE id = ?
UpdateRows(id, in) ==
  IF id \in Pieces THEN [content_piece EXCEPT ![id] = in] ELSE content_piece

\* db.Exec's result is dropped: the call returns nil whenever the statement ran
updateContentPiece(id, in, fault) ==
  /\ id \notin PendingIds
  /\ IF fault
       THEN /\ last' = Result("update", id, "UpdateFailed", "StoreFault")
            /\ UNCHANGED content_piece
       ELSE /\ content_piece' = UpdateRows(id, in)
            /\ last' = Result("update", id, "nil", "none")
  /\ UNCHANGED <<entity, autoInc, cpc, contlet_paragraph, contlet_image,
                 contlet_heading, taxonomy, tag, entity_tags,
                 link_class, entity_relationships, txVars, returned, schemaVars, lk>>

\* DELETE FROM entity WHERE id = ?; db.Exec's result is dropped: the call
\* returns nil whenever the statement ran, also when it matched no row
deleteContentPiece(id, fault) ==
  /\ id \notin PendingIds
  /\ IF fault
       THEN /\ last' = Result("delete", id, "DeleteFailed", "StoreFault")
            /\ UNCHANGED storeVars
       ELSE IF id \notin entity
         THEN /\ last' = Result("delete", id, "nil", "none")
              /\ UNCHANGED storeVars
         ELSE IF DeleteRestricted(id)
           THEN /\ last' = Result("delete", id, "DeleteFailed", "RestrictedDelete")
                /\ UNCHANGED storeVars
           ELSE /\ CascadeDelete(id)
                /\ last' = Result("delete", id, "nil", "none")
  /\ UNCHANGED <<txVars, returned, schemaVars, lk>>

\* ------------------------------------------------------------------------
\* seedSampleData: one transaction
\* ------------------------------------------------------------------------
\* the store createSchemaFromArchitecture leaves on a new database
EmptyStore ==
  /\ entity = {}
  /\ autoInc = 1
  /\ content_piece = <<>>
  /\ cpc = {}
  /\ contlet_paragraph = {}
  /\ contlet_image = {}
  /\ contlet_heading = {}
  /\ taxonomy = {}
  /\ tag = <<>>
  /\ entity_tags = {}
  /\ link_class = {}
  /\ entity_relationships = <<>>

\* if err != nil || count > 1 { return }, for the count SELECT COUNT(*) FROM
\* entity gives
SeedSkips(count) == count > 1

\* taxonomy.name VARCHAR(255) NOT NULL UNIQUE: a row named "Technology" is
\* there (seedSampleData is the only writer of taxonomy)
TechnologyTaken == taxonomy /= {}

\* the rows the transaction inserts, the five ids taken from the counter in
\* the order taxonomy, tag, piece, heading, paragraph
SeedRows ==
  LET taxonomyTechID == autoInc
      tagGoID == autoInc + 1
      piece1ID == autoInc + 2
      heading1ID == autoInc + 3
      para1ID == autoInc + 4
  IN /\ entity' = entity \cup (autoInc..(autoInc + 4))
     /\ autoInc' = autoInc + 5
     /\ taxonomy' = taxonomy \cup {taxonomyTechID}
     /\ tag' = tag @@ (tagGoID :> taxonomyTechID)
     /\ content_piece' = content_piece @@
          (piece1ID :> [title |-> "About This System", class |-> "blog_post"])
     /\ entity_tags' = entity_tags \cup {<<piece1ID, tagGoID>>}
     /\ contlet_heading' = contlet_heading \cup {heading1ID}
     /\ contlet_paragraph' = contlet_paragraph \cup {para1ID}
     /\ cpc' = cpc \cup
          { [content_piece_id |-> piece1ID, contlet_id |-> heading1ID, sort_order |-> 100],
            [content_piece_id |-> piece1ID, contlet_id |-> para1ID, sort_order |-> 200] }
     /\ UNCHANGED <<contlet_image, link_class, entity_relationships>>

\* tx.Rollback() and log.Fatal: no table changes, the counter keeps the ids
\* that were handed out
SeedRolledBack(burn) ==
  /\ autoInc' = autoInc + burn
  /\ UNCHANGED <<entity, content_piece, cpc, contlet_paragraph, contlet_image,
                 contlet_heading, taxonomy, tag, entity_tags, link_class,
                 entity_relationships>>

\* seedSampleData(enabled); fault: "count", the count query fails; "tx", a
\* statement of the transaction or its commit fails after burn ids were
\* handed out
seedSampleData(enabled, fault, burn) ==
  /\ IF ~enabled
       THEN /\ burn = 0
            /\ last' = Result("seed", 0, "nil", "disabled")
            /\ UNCHANGED storeVars
       ELSE IF fault = "count" \/ SeedSkips(Cardinality(entity))
         THEN /\ burn = 0
              /\ last' = Result("seed", 0, "nil", "skipped")
              /\ UNCHANGED storeVars
         ELSE /\ autoInc + 4 <= MaxId
              /\ IF fault = "tx"
                   THEN /\ last' = Result("seed", 0, "Fatal", "StoreFault")
                        /\ SeedRolledBack(burn)
                   ELSE IF TechnologyTaken
                     THEN /\ burn = 1
                          /\ last' = Result("seed", 0, "Fatal", "Conflict")
                          /\ SeedRolledBack(burn)
                     ELSE /\ burn = 5
                          /\ last' = Result("seed", 0, "nil", "seeded")
                          /\ SeedRows
  /\ UNCHANGED <<txVars, returned, schemaVars, lk>>

\* ------------------------------------------------------------------------
\* Composition Index: attach / detach (spec section 4.3) on the table
\* content_piece_contlets
\* ------------------------------------------------------------------------
\* PRIMARY KEY (content_piece_id, sort_order)
PositionTaken(piece, key) ==
  \E e \in cpc : e.content_piece_id = piece /\ e.sort_order = key

attach(piece, contlet, key) ==
  /\ piece \notin PendingIds
  /\ contlet \notin PendingIds
  /\ IF piece \notin Pieces \/ contlet \notin Contlets
       THEN /\ last' = Result("attach", contlet, "AttachFailed", "NotFound")
            /\ UNCHANGED cpc
       ELSE IF PositionTaken(piece, key)
         THEN /\ last' = Result("attach", contlet, "AttachFailed", "Conflict")
              /\ UNCHANGED cpc
         ELSE /\ cpc' = cpc \cup { [content_piece_id |-> piece, contlet_id |-> contlet,
                                  sort_order |-> key] }
              /\ last' = Result("attach", contlet, "nil", "none")
  /\ UNCHANGED <<entity, autoInc, content_piece, contlet_paragraph, contlet_image,
                 contlet_heading, taxonomy, tag, entity_tags,
                 link_class, entity_relationships, txVars, returned, schemaVars, lk>>

EdgesOf(piece, contlet) ==
  { e \in cpc : e.content_piece_id = piece /\ e.contlet_id = contlet }

detach(piece, contlet) ==
  /\ IF EdgesOf(piece, contlet) = {}
       THEN /\ last' = Result("detach", contlet, "DetachFailed", "NotFound")
            /\ UNCHANGED cpc
       ELSE /\ cpc' = cpc \ EdgesOf(piece, contlet)
            /\ last' = Result("detach", contlet, "nil", "none")
  /\ UNCHANGED <<entity, autoInc, content_piece, contlet_paragraph, contlet_image,
                 contlet_heading, taxonomy, tag, entity_tags,
                 link_class, entity_relationships, txVars, returned, schemaVars, lk>>

\* ------------------------------------------------------------------------
\* Relationship Graph: link / unlink (spec section 4.6) on the tables
\* link_class and entity_relationships
\* ------------------------------------------------------------------------
\* the number of rows of entity_relationships that hold the triple
\* <<subject_id, link_type, object_id>> (the rows' own AUTO_INCREMENT id,
\* source and confidence set aside)
CopiesOf(triple) ==
  IF triple \in DOMAIN entity_relationships THEN entity_relationships[triple] ELSE 0

\* faulty variant: the table has no unique key on the triple
TripleTakenNever(triple) == FALSE

\* UNIQUE (subject_id, link_type, object_id)
TripleTaken(triple) == CopiesOf(triple) >= 1

\* subject_id, object_id REFERENCES entity(id); link_type REFERENCES
\* link_class(name)
ReferencesHold(triple) ==
  /\ triple[1] \in entity
  /\ triple[3] \in entity
  /\ triple[2] \in link_class

\* the store's answer to INSERT INTO entity_relationships (subject_id,
\* link_type, object_id, ...)
InsertAnswer(triple) ==
  IF ~ReferencesHold(triple) THEN "NotFound"
  ELSE IF TripleTaken(triple) THEN "Conflict"
  ELSE "nil"

\* confidence values, in tenths; CHECK (confidence BETWEEN 0.0 AND 1.0)
ConfidenceInRange(confidence) == confidence >= 0 /\ confidence <= 10

linkFrame ==
  UNCHANGED <<entity, autoInc, content_piece, cpc, contlet_paragraph, contlet_image,
              contlet_heading, taxonomy, tag, entity_tags, link_class,
              txVars, returned, last, schemaVars>>

\* link(subject, type, object, confidence) is called by handler h: a
\* confidence out of range fails before any write is attempted
linkCall(h, triple, confidence) ==
  /\ lk[h].pc = "idle"
  /\ triple[1] \notin PendingIds
  /\ triple[3] \notin PendingIds
  /\ IF ConfidenceInRange(confidence)
       THEN lk' = [lk EXCEPT ![h] = [pc |-> "called", triple |-> triple, err |-> "none",
                                     fresh |-> CopiesOf(triple) = 0]]
       ELSE lk' = [lk EXCEPT ![h] = [pc |-> "returned", triple |-> triple,
                                     err |-> "InvalidArgument",
                                     fresh |-> CopiesOf(triple) = 0]]
  /\ UNCHANGED entity_relationships
  /\ linkFrame

\* the single INSERT statement of handler h's link call runs in the store
linkExec(h) ==
  /\ lk[h].pc = "called"
  /\ lk' = [lk EXCEPT ![h].pc = "returned", ![h].err = InsertAnswer(lk[h].triple)]
  /\ IF InsertAnswer(lk[h].triple) = "nil"
       THEN entity_relationships' =
              (lk[h].triple :> (CopiesOf(lk[h].triple) + 1)) @@ entity_relationships
       ELSE UNCHANGED entity_relationships
  /\ linkFrame

\* handler h's link call returns its outcome to the caller
linkReturn(h) ==
  /\ lk[h].pc = "returned"
  /\ lk' = [lk EXCEPT ![h] = NoLink]
  /\ UNCHANGED entity_relationships
  /\ linkFrame

\* unlink(subject, type, object): DELETE FROM entity_relationships WHERE the
\* triple matches
unlink(triple) ==
  /\ IF CopiesOf(triple) = 0
       THEN /\ last' = Result("unlink", 0, "UnlinkFailed", "NotFound")
            /\ UNCHANGED entity_relationships
       ELSE /\ last' = Result("unlink", 0, "nil", "none")
            /\ entity_relationships' =
                 Restrict(entity_relationships, DOMAIN entity_relationships \ {triple})
  /\ UNCHANGED <<entity, autoInc, content_piece, cpc, contlet_paragraph, contlet_image,
                 contlet_heading, taxonomy, tag, entity_tags, link_class,
                 txVars, returned, schemaVars, lk>>

\* a link class enters the vocabulary: INSERT INTO link_class (name, ...),
\* name VARCHAR(255) PRIMARY KEY
defineLinkClass(name) ==
  /\ IF name \in link_class
       THEN /\ last' = Result("defineLinkClass", 0, "DefineFailed", "Conflict")
            /\ UNCHANGED link_class
       ELSE /\ last' = Result("defineLinkClass", 0, "nil", "none")
            /\ link_class' = link_class \cup {name}
  /\ UNCHANGED <<entity, autoInc, content_piece, cpc, contlet_paragraph, contlet_image,
                 contlet_heading, taxonomy, tag, entity_tags, entity_relationships,
                 txVars, returned, schemaVars, lk>>

\* ------------------------------------------------------------------------
\* Reads: getAllContentPieces, getPieceByID
\* ------------------------------------------------------------------------
\* faulty variant: the rows come back in ascending id order
OrderByIdAsc(S) ==
  LET RECURSIVE Up(_)
      Up(T) == IF T = {} THEN <<>>
               ELSE LET m == CHOOSE x \in T : \A y \in T : x <= y
                    IN <<m>> \o Up(T \ {m})
  IN Up(S)

\* ORDER BY id DESC over the primary keys S
OrderByIdDesc(S) ==
  LET RECURSIVE Down(_)
      Down(T) == IF T = {} THEN <<>>
                 ELSE LET m == CHOOSE x \in T : \A y \in T : x >= y
                      IN <<m>> \o Down(T \ {m})
  IN Down(S)

\* rows.Scan(&p.ID, &p.Class, &p.Title)
ContentPiece(id) ==
  [ID |-> id, Class |-> content_piece[id].class, Title |-> content_piece[id].title]

\* SELECT id, class, title FROM content_piece ORDER BY id DESC, every row
\* appended to the slice that is returned
getAllContentPieces(fault) ==
  /\ IF fault
       THEN last' = Answer("list", 0, "QueryFailed", "StoreFault", NoOut)
       ELSE last' = Answer("list", 0, "nil", "none",
                           [piece |-> <<>>,
                            rows |-> [i \in 1..Cardinality(Pieces) |->
                                       ContentPiece(OrderByIdDesc(Pieces)[i])]])
  /\ UNCHANGED <<storeVars, txVars, returned, schemaVars, lk>>

\* the CASE of the contlet query: the first variant table, in the order
\* paragraph, image, heading, that holds a row for the id; 'unknown' if none
VariantClass(id) ==
  IF id \in contlet_paragraph THEN "paragraph"
  ELSE IF id \in contlet_image THEN "image"
  ELSE IF id \in contlet_heading THEN "heading"
  ELSE "unknown"

\* faulty variant: the edges come back in descending sort_order
OrderBySortOrderDesc(E) ==
  LET RECURSIVE Down(_)
      Down(T) == IF T = {} THEN <<>>
                 ELSE LET e == CHOOSE x \in T : \A y \in T : x.sort_order >= y.sort_order
                      IN <<e>> \o Down(T \ {e})
  IN Down(E)

\* ORDER BY cpc.sort_order ASC over the edges E of one piece (the primary key
\* (content_piece_id, sort_order) gives them distinct sort keys)
OrderBySortOrder(E) ==
  LET RECURSIVE Up(_)
      Up(T) == IF T = {} THEN <<>>
               ELSE LET e == CHOOSE x \in T : \A y \in T : x.sort_order <= y.sort_order
                    IN <<e>> \o Up(T \ {e})
  IN Up(E)

\* FROM content_piece_contlets cpc LEFT JOIN the three variant tables ON
\* cpc.contlet_id = id (their primary key: one result row per edge)
\* WHERE cpc.content_piece_id = ?
ContletRows(id) ==
  LET edges == OrderBySortOrder({ e \in cpc : e.content_piece_id = id })
  IN [i \in 1..Len(edges) |->
        [ID |-> edges[i].contlet_id, Class |-> VariantClass(edges[i].contlet_id)]]

\* getPieceByID(id); fault: "row", the piece query fails; "rows", the contlet
\* query fails after the piece was read
getPieceByID(id, fault) ==
  /\ id \notin PendingIds
  /\ IF fault = "row"
       THEN last' = Answer("get", id, "QueryFailed", "StoreFault", NoOut)
       ELSE IF id \notin Pieces
         THEN last' = Answer("get", id, "ErrNoRows", "NotFound", NoOut)
         ELSE IF fault = "rows"
           THEN last' = Answer("get", id, "QueryFailed", "StoreFault",
                               [piece |-> <<ContentPiece(id)>>, rows |-> <<>>])
           ELSE last' = Answer("get", id, "nil", "none",
                               [piece |-> <<ContentPiece(id)>>, rows |-> ContletRows(id)])
  /\ UNCHANGED <<storeVars, txVars, returned, schemaVars, lk>>

\* ------------------------------------------------------------------------
\* Rows of the variant tables written past the operations above (another
\* client of the database, a repair by hand): the store checks them against
\* the tables' own constraints only
\* ------------------------------------------------------------------------
VariantTables == {"contlet_paragraph", "contlet_image", "contlet_heading"}

RowsOf(table) ==
  IF table = "contlet_paragraph" THEN contlet_paragraph
  ELSE IF table = "contlet_image" THEN contlet_image
  ELSE contlet_heading

\* the variant tables that hold a row for id
VariantsOf(id) == { t \in VariantTables : id \in RowsOf(t) }

WithRows(table, rows) ==
  /\ contlet_paragraph' = IF table = "contlet_paragraph" THEN rows ELSE contlet_paragraph
  /\ contlet_image' = IF table = "contlet_image" THEN rows ELSE contlet_image
  /\ contlet_heading' = IF table = "contlet_heading" THEN rows ELSE contlet_heading

\* INSERT INTO contlet_x (id, ...): id INT PRIMARY KEY, FOREIGN KEY (id)
\* REFERENCES entity(id); no constraint looks at the other variant tables
insertVariantRow(table, id) ==
  /\ id \in entity
  /\ id \notin PendingIds
  /\ id \notin RowsOf(table)
  /\ WithRows(table, RowsOf(table) \cup {id})
  /\ UNCHANGED <<entity, autoInc, content_piece, cpc, taxonomy, tag, entity_tags,
                 link_class, entity_relationships,
                 txVars, returned, last, schemaVars, lk>>

\* DELETE FROM contlet_x WHERE id = ?: no table references a variant table
deleteVariantRow(table, id) ==
  /\ id \in RowsOf(table)
  /\ WithRows(table, RowsOf(table) \ {id})
  /\ UNCHANGED <<entity, autoInc, content_piece, cpc, taxonomy, tag, entity_tags,
                 link_class, entity_relationships,
                 txVars, returned, last, schemaVars, lk>>

\* ------------------------------------------------------------------------
\* Schema editor: strings are sequences of characters
\* ------------------------------------------------------------------------
LowerCase == {"a", "b", "c", "d", "e", "f", "g", "h", "i", "j", "k", "l", "m",
              "n", "o", "p", "q", "r", "s", "t", "u", "v", "w", "x", "y", "z"}
UpperCase == {"A", "B", "C", "D", "E", "F", "G", "H", "I", "J", "K", "L", "M",
              "N", "O", "P", "Q", "R", "S", "T", "U", "V", "W", "X", "Y", "Z"}
\* the character U+0060 (written as a word: the module's strings cannot hold it)
BackTick == "backtick"
Digits == {"0", "1", "2", "3", "4", "5", "6", "7", "8", "9"}

\* the character classes [a-zA-Z_] and [a-zA-Z0-9_] of the identifier pattern
IdentStart == LowerCase \cup UpperCase \cup {"_"}
IdentRest == LowerCase \cup UpperCase \cup Digits \cup {"_"}

\* faulty variant: the pattern without its end anchor
validIdentifierUnanchored(s) ==
  /\ Len(s) >= 1
  /\ s[1] \in IdentStart

\* regexp.MatchString("^[a-zA-Z_][a-zA-Z0-9_]*$", s)
validIdentifier(s) ==
  /\ Len(s) >= 1
  /\ s[1] \in IdentStart
  /\ \A i \in 2..Len(s) : s[i] \in IdentRest

\* strings.ContainsAny(s, chars)
ContainsAny(s, chars) == \E i \in 1..Len(s) : s[i] \in chars

\* the characters updateTableSchema refuses in a column type: ";)'\""
TypeDenyChars == {";", ")", "'", "\""}

\* strings.Contains(s, sub)
Contains(s, sub) ==
  \E i \in 0..(Len(s) - Len(sub)) : \A j \in 1..Len(sub) : s[i + j] = sub[j]

\* strings.Join(parts, sep)
RECURSIVE Join(_, _)
Join(parts, sep) ==
  IF parts = <<>> THEN <<>>
  ELSE IF Len(parts) = 1 THEN parts[1]
  ELSE parts[1] \o sep \o Join(Tail(parts), sep)

\* text of the statement updateTableSchema composes
kwModify ==
  <<"M", "O", "D", "I", "F", "Y", " ", "C", "O", "L", "U", "M", "N", " ",
  BackTick>>
\* "ALTER TABLE (backtick)"
kwAlter ==
  <<"A", "L", "T", "E", "R", " ", "T", "A", "B", "L", "E", " ", BackTick>>
\* "(backtick) "
kwTick ==
  <<BackTick, " ">>
\* " NOT NULL"
kwNotNull ==
  <<" ", "N", "O", "T", " ", "N", "U", "L", "L">>
\* " NULL"
kwNull ==
  <<" ", "N", "U", "L", "L">>
\* " DEFAULT '"
kwDefault ==
  <<" ", "D", "E", "F", "A", "U", "L", "T", " ", "'">>
\* "'"
kwQuote ==
  <<"'">>
\* " "
kwSpace ==
  <<" ">>
\* ", "
kwComma ==
  <<",", " ">>
\* the Null value that makes a column NOT NULL
sNO ==
  <<"N", "O">>
\* table and column names, types and defaults that are submitted
tContentPiece ==
  <<"c", "o", "n", "t", "e", "n", "t", "_", "p", "i", "e", "c", "e">>
\* a well-formed name of no table
tMissing ==
  <<"n", "o", "_", "s", "u", "c", "h", "_", "t", "a", "b", "l", "e">>
\* a table name outside the identifier grammar
tInjected ==
  <<"t", "a", "g", BackTick, ";", " ", "-", "-">>
\* column content_piece.title
fTitle ==
  <<"t", "i", "t", "l", "e">>
\* column content_piece.class
fClass ==
  <<"c", "l", "a", "s", "s">>
\* a column name outside the identifier grammar
fInjected ==
  <<"n", "a", "m", "e", ";", " ", "D", "R", "O", "P", " ", "T", "A", "B",
  "L", "E", " ", "x">>
\* physical types
pText ==
  <<"T", "E", "X", "T">>
\* INT
pInt ==
  <<"I", "N", "T">>
\* VARCHAR(255)
pVarchar255 ==
  <<"V", "A", "R", "C", "H", "A", "R", "(", "2", "5", "5", ")">>
\* VARCHAR(50)
pVarchar50 ==
  <<"V", "A", "R", "C", "H", "A", "R", "(", "5", "0", ")">>
\* semantic type names of the Class Management UI
semSingleLine ==
  <<"S", "i", "n", "g", "l", "e", " ", "L", "i", "n", "e", " ", "o", "f",
  " ", "T", "e", "x", "t">>
\* Paragraph
semParagraph ==
  <<"P", "a", "r", "a", "g", "r", "a", "p", "h">>
\* Number
semNumber ==
  <<"N", "u", "m", "b", "e", "r">>
\* Date
semDate ==
  <<"D", "a", "t", "e">>
\* the Null value of a nullable column
sYES ==
  <<"Y", "E", "S">>
\* a default value
sActive ==
  <<"a", "c", "t", "i", "v", "e">>
\* the empty string
sEmpty == <<>>
\* an extra attribute
xAutoIncrement ==
  <<"A", "U", "T", "O", "_", "I", "N", "C", "R", "E", "M", "E", "N", "T">>
\* a type text that ends in the identifier quote (U+0060)
pTick ==
  <<"T", "E", "X", "T", BackTick>>
\* a default value that holds a quote: x' --
sQuoted ==
  <<"x", "'", " ", "-", "-">>
\* free text in the place of an extra attribute: COMMENT 'draft'
xComment ==
  <<"C", "O", "M", "M", "E", "N", "T", " ", "'", "d", "r", "a", "f", "t",
  "'">>

\* sql.NullString
NoDefault == [Valid |-> FALSE, String |-> sEmpty]
DefaultOf(str) == [Valid |-> TRUE, String |-> str]

\* ColumnDetail values a schema form submits (Key is not read by
\* updateTableSchema)
ColumnDetail(field, type, null, default, extra) ==
  [Field |-> field, Type |-> type, Null |-> null, Default |-> default, Extra |-> extra]

Descriptors ==
  { ColumnDetail(fTitle, pText, sYES, DefaultOf(sActive), xComment),
    ColumnDetail(fClass, semSingleLine, sNO, NoDefault, xAutoIncrement),
    ColumnDetail(fInjected, pText, sYES, NoDefault, sEmpty),
    ColumnDetail(fClass, pVarchar255, sNO, NoDefault, sEmpty),
    ColumnDetail(fTitle, pTick, sYES, DefaultOf(sQuoted), sEmpty) }

ColumnLists == UNION { [1..n -> Descriptors] : n \in 0..MaxCols }

TableNames == {tContentPiece, tMissing, tInjected}

\* the column types the store's parser accepts
PhysicalTypes == {pText, pInt, pVarchar255, pVarchar50}

\* architecture.md 5.2: the semantic types of the Class Management UI and the
\* physical type the documented map gives
SemanticTypes == {semSingleLine, semParagraph, semNumber, semDate}
SemanticMap == (semSingleLine :> pVarchar255)

\* the attributes MODIFY COLUMN gives a column
AttrsOf(col) ==
  [Type |-> col.Type,
   Null |-> IF col.Null = sNO THEN sNO ELSE sYES,
   Default |-> IF col.Default.Valid /\ col.Default.String /= sEmpty
                 THEN col.Default ELSE NoDefault,
   Extra |-> col.Extra]

\* CREATE TABLE content_piece: the columns the submissions address
InitSchema ==
  /\ schema = (tContentPiece :>
                 ((fTitle :> [Type |-> pText, Null |-> sYES, Default |-> NoDefault,
                              Extra |-> sEmpty]) @@
                  (fClass :> [Type |-> pVarchar255, Null |-> sNO, Default |-> NoDefault,
                              Extra |-> sEmpty])))
  /\ sres = [table |-> sEmpty, columns |-> <<>>, err |-> "none", sent |-> FALSE,
             query |-> sEmpty]

\* the checks of one loop iteration of updateTableSchema
ColumnError(col) ==
  IF ~validIdentifier(col.Field) THEN "InvalidColumnName"
  ELSE IF ContainsAny(col.Type, TypeDenyChars) THEN "InvalidColumnType"
  ELSE "nil"

\* faulty variant: only the first column is checked
ValidationErrorFirstOnly(columns) ==
  IF columns = <<>> THEN "nil" ELSE ColumnError(Head(columns))

\* the loop returns at the first column that fails a check
RECURSIVE ValidationError(_)
ValidationError(columns) ==
  IF columns = <<>> THEN "nil"
  ELSE IF ColumnError(Head(columns)) /= "nil" THEN ColumnError(Head(columns))
  ELSE ValidationError(Tail(columns))

\* clause := "MODIFY COLUMN (backtick)%s(backtick) %s" + nullability + default + extra
Clause(col) ==
  kwModify \o col.Field \o kwTick \o col.Type
    \o (IF col.Null = sNO THEN kwNotNull ELSE kwNull)
    \o (IF col.Default.Valid /\ col.Default.String /= sEmpty
          THEN kwDefault \o col.Default.String \o kwQuote ELSE sEmpty)
    \o (IF col.Extra /= sEmpty THEN kwSpace \o col.Extra ELSE sEmpty)

\* query := "ALTER TABLE (backtick)%s(backtick) %s" with the clauses joined by ", "
Query(tableName, columns) ==
  kwAlter \o tableName \o kwTick
    \o Join([i \in 1..Len(columns) |-> Clause(columns[i])], kwComma)

\* what the store requires of the ALTER TABLE statement composed from these
\* columns: the table and every column exist, every type parses, no column is
\* named twice, and the text after the default is nothing or a column comment
\* (AUTO_INCREMENT is not put on a column that is no key)
StoreAccepts(tableName, columns) ==
  /\ tableName \in DOMAIN schema
  /\ \A i \in 1..Len(columns) :
       /\ columns[i].Field \in DOMAIN schema[tableName]
       /\ columns[i].Type \in PhysicalTypes
       /\ columns[i].Extra \in {sEmpty, xComment}
       /\ \A j \in 1..Len(columns) : columns[j].Field = columns[i].Field => j = i

\* the ALTER TABLE statement applied: every named column gets its new definition
AlteredTable(tableName, columns) ==
  [f \in DOMAIN schema[tableName] |->
     IF \E i \in 1..Len(columns) : columns[i].Field = f
       THEN AttrsOf(columns[CHOOSE i \in 1..Len(columns) : columns[i].Field = f])
       ELSE schema[tableName][f]]

SchemaResult(tableName, columns, err, sent) ==
  [table |-> tableName, columns |-> columns, err |-> err, sent |-> sent,
   query |-> IF sent THEN Query(tableName, columns) ELSE sEmpty]

\* the error of the validation stage ("nil": the statement is composed)
Rejection(tableName, columns) ==
  IF ~validIdentifier(tableName) THEN "InvalidTableName"
  ELSE ValidationError(columns)

\* faulty variant: the clause count is not looked at before the statement is
\* composed and executed
updateTableSchemaAlwaysExecutes(tableName, columns, fault) ==
  /\ IF Rejection(tableName, columns) /= "nil"
       THEN /\ sres' = SchemaResult(tableName, columns, Rejection(tableName, columns), FALSE)
            /\ UNCHANGED schema
       ELSE IF fault \/ ~StoreAccepts(tableName, columns) \/ Len(columns) = 0
         THEN /\ sres' = SchemaResult(tableName, columns, "AlterFailed", TRUE)
              /\ UNCHANGED schema
         ELSE /\ sres' = SchemaResult(tableName, columns, "nil", TRUE)
              /\ schema' = [schema EXCEPT ![tableName] = AlteredTable(tableName, columns)]
  /\ UNCHANGED <<storeVars, txVars, returned, last, lk>>

\* updateTableSchema(tableName, columns); fault: db.Exec fails for a reason of
\* the store's own
updateTableSchema(tableName, columns, fault) ==
  /\ IF Rejection(tableName, columns) /= "nil"
       THEN /\ sres' = SchemaResult(tableName, columns, Rejection(tableName, columns), FALSE)
            /\ UNCHANGED schema
       ELSE IF Len(columns) = 0
         THEN /\ sres' = SchemaResult(tableName, columns, "nil", FALSE)
              /\ UNCHANGED schema
         ELSE IF fault \/ ~StoreAccepts(tableName, columns)
           THEN /\ sres' = SchemaResult(tableName, columns, "AlterFailed", TRUE)
                /\ UNCHANGED schema
           ELSE /\ sres' = SchemaResult(tableName, columns, "nil", TRUE)
                /\ schema' = [schema EXCEPT ![tableName] = AlteredTable(tableName, columns)]
  /\ UNCHANGED <<storeVars, txVars, returned, last, lk>>

\* ------------------------------------------------------------------------
\* Specification of the object operations
\* ------------------------------------------------------------------------
Init == InitStore /\ InitTx /\ InitSchema

\* no createContentPiece transaction is open
Quiet == \A h \in Handlers : pc[h] = "idle"

\* the steps of createContentPiece run by handler h
CreateCall(h) == \E in \in PieceInputs, fault \in BOOLEAN : Begin(h, in, fault)

CreateSteps(h) ==
  \/ \E fault \in BOOLEAN, burn \in BOOLEAN : InsertEntity(h, fault, burn)
  \/ \E fault \in BOOLEAN : InsertPiece(h, fault)
  \/ \E outcome \in {"ok", "failed", "lostAck"} : Commit(h, outcome)

Create(h) == CreateCall(h) \/ CreateSteps(h)

\* Calls made one after the other: a call starts when the previous one has
\* returned.
Next ==
  \/ Create("h1")
  \/ \E id \in Ids, in \in PieceInputs, fault \in BOOLEAN :
       Quiet /\ updateContentPiece(id, in, fault)
  \/ \E id \in Ids, fault \in BOOLEAN : Quiet /\ deleteContentPiece(id, fault)

Spec == Init /\ [][Next]_vars

\* The composition index in use on the sample data: attach, detach and delete
\* calls made one after the other.
NextCompose ==
  \/ \E id \in Ids, fault \in BOOLEAN : deleteContentPiece(id, fault)
  \/ \E piece \in Ids, contlet \in Ids, key \in SortKeys : attach(piece, contlet, key)
  \/ \E piece \in Ids, contlet \in Ids : detach(piece, contlet)

SpecCompose == Init /\ [][NextCompose]_vars

\* Concurrent request handlers: the steps of their createContentPiece
\* transactions interleave with each other and with the deletes the store
\* answers (a delete the store fails to run changes no table).
NextTx ==
  \/ \E h \in Handlers : Create(h)
  \/ \E id \in Ids : deleteContentPiece(id, FALSE)

SpecTx == Init /\ [][NextTx]_vars

\* Submissions of the schema editor, one after the other.
NextSchema ==
  \E tableName \in TableNames, columns \in ColumnLists, fault \in BOOLEAN :
    updateTableSchema(tableName, columns, fault)

SpecSchema == Init /\ [][NextSchema]_vars

\* The piece list read between the calls that write, one call after the other.
NextList ==
  \/ Next
  \/ \E fault \in BOOLEAN : Quiet /\ getAllContentPieces(fault)

\* the triples that are linked: the sample piece and its heading, both ways
LinkTriples == { <<3, "related_to", 4>>, <<4, "related_to", 3>> }
LinkTypes == {"related_to"}
\* 0.5 and 1.5
Confidences == {5, 15}

\* no link call is in progress
LinkQuiet == \A h \in Handlers : lk[h].pc = "idle"

\* Concurrent request handlers whose link calls interleave statement by
\* statement; unlink, the vocabulary and the delete of a linked piece come
\* between the link calls.
NextLink ==
  \/ \E h \in Handlers, triple \in LinkTriples, confidence \in Confidences :
       linkCall(h, triple, confidence)
  \/ \E h \in Handlers : linkExec(h)
  \/ \E h \in Handlers : linkReturn(h)
  \/ \E triple \in LinkTriples : LinkQuiet /\ unlink(triple)
  \/ \E name \in LinkTypes : LinkQuiet /\ defineLinkClass(name)
  \/ \E id \in Pieces : LinkQuiet /\ deleteContentPiece(id, FALSE)

SpecLink == Init /\ [][NextLink]_vars

SpecList == Init /\ [][NextList]_vars

\* The program started with --no-sample-data on a new database.
InitEmpty == EmptyStore /\ InitTx /\ InitSchema

\* seedSampleData called again and again, between the creates of the first
\* MaxEarlyCreates ids and deletes, one call after the other.
NextSeed ==
  \/ \E enabled \in BOOLEAN, fault \in {"none", "count", "tx"}, burn \in 0..5 :
       Quiet /\ seedSampleData(enabled, fault, burn)
  \/ autoInc <= MaxEarlyCreates /\ CreateCall("h1")
  \/ CreateSteps("h1")
  \/ \E id \in Ids : Quiet /\ deleteContentPiece(id, FALSE)

SpecSeed == InitEmpty /\ [][NextSeed]_vars

\* sort keys of the edges that are read back
ReadKeys == {100, 150, 200, 300}

\* the ids composition edges reference as their contlet
AttachedIds == { e.contlet_id : e \in cpc }

\* The ordered read of a piece between attach and detach calls on the stored
\* pieces and contlets, and writes to the variant rows of attached contlets
\* (a second row in contlet_image, a variant row removed), one call after the
\* other.
NextRead ==
  \/ \E piece \in Pieces, contlet \in Contlets, key \in ReadKeys :
       attach(piece, contlet, key)
  \/ \E piece \in Pieces, contlet \in AttachedIds : detach(piece, contlet)
  \/ \E id \in Pieces \cup {autoInc}, fault \in {"none", "row", "rows"} :
       getPieceByID(id, fault)
  \/ \E id \in AttachedIds : insertVariantRow("contlet_image", id)
  \/ \E table \in VariantTables, id \in AttachedIds : deleteVariantRow(table, id)

SpecRead == Init /\ [][NextRead]_vars

\* ------------------------------------------------------------------------
\* Properties of the schema editor (checked under SpecSchema)
\* ------------------------------------------------------------------------
\* the identifier grammar [A-Za-z_][A-Za-z0-9_]* as the design states it
GrammarStart == LowerCase \cup UpperCase \cup {"_"}
GrammarRest == LowerCase \cup UpperCase \cup Digits \cup {"_"}
InGrammar(s) ==
  /\ s /= <<>>
  /\ Head(s) \in GrammarStart
  /\ \A i \in DOMAIN s : s[i] \in GrammarRest

\* statement-delimiter and quote characters the type scan refuses
HasDeniedChar(s) == \E i \in DOMAIN s : s[i] \in {";", ")", "'", "\""}

\* positions of the submitted columns whose Field is outside the grammar
BadFields(columns) == { i \in DOMAIN columns : ~InGrammar(columns[i].Field) }

\* a call of updateTableSchema has returned
SchemaCalled == sres.err /= "none"

\* the submission names a table or a column outside the identifier grammar
BadIdentifierSubmitted == ~InGrammar(sres.table) \/ BadFields(sres.columns) /= {}

InvalidIdentifier == sres.err \in {"InvalidTableName", "InvalidColumnName"}

\* C1 as stated: a submission with a table name or a column Field outside the
\* identifier grammar returns an InvalidIdentifier error and sends no ALTER
\* statement, whatever the other columns contain.
C1_InvalidIdentifierAlways ==
  (SchemaCalled /\ BadIdentifierSubmitted) => (InvalidIdentifier /\ ~sres.sent)

\* a column submitted before the first ill-named one has a refused type text
DeniedTypeBeforeBadField ==
  /\ InGrammar(sres.table)
  /\ \E j \in DOMAIN sres.columns :
       /\ HasDeniedChar(sres.columns[j].Type)
       /\ \A i \in BadFields(sres.columns) : j < i

\* C1 (amended): a submission with a table name or a column Field outside the
\* identifier grammar returns an error and sends no ALTER statement; the error
\* is InvalidIdentifier, unless the table name is well-formed and a column
\* submitted before the first ill-named column has a type text with a refused
\* character, and then the error is the one of that column type.
C1_FailsClosedOnIdentifiers ==
  (SchemaCalled /\ BadIdentifierSubmitted) =>
    /\ ~sres.sent
    /\ IF DeniedTypeBeforeBadField
         THEN sres.err = "InvalidColumnType"
         ELSE InvalidIdentifier

\* C1 witness: the column "name; DROP TABLE x" submitted after a well-formed
\* column of a well-formed table is refused as an invalid column name.
C1_Witness ==
  /\ sres.err = "InvalidColumnName"
  /\ sres.table = tContentPiece
  /\ Len(sres.columns) = 2
  /\ sres.columns[1].Field = fTitle
  /\ sres.columns[2].Field = fInjected
  /\ ~sres.sent

\* C2: a submitted type that is a semantic name is composed as its mapped
\* physical type and never as the label; a submitted type outside the
\* semantic names fails with UnknownSemanticType and nothing is executed.
C2_SemanticTypesTranslated ==
  SchemaCalled =>
    \A i \in DOMAIN sres.columns :
      LET type == sres.columns[i].Type IN
        /\ (type \in DOMAIN SemanticMap /\ sres.sent) =>
             (Contains(sres.query, SemanticMap[type]) /\ ~Contains(sres.query, type))
        /\ (type \notin SemanticTypes /\ ~BadIdentifierSubmitted) =>
             (sres.err = "UnknownSemanticType" /\ ~sres.sent)

\* a descriptor the validation of updateTableSchema refuses
FailsValidation(col) == ~InGrammar(col.Field) \/ HasDeniedChar(col.Type)

\* C3: when at least one submitted descriptor fails validation, at any
\* position of the list, the call sends no statement and the schema is after
\* the call what it was before.
C3_AllOrNothing ==
  [][(\E i \in DOMAIN sres'.columns : FailsValidation(sres'.columns[i]))
       => (schema' = schema /\ ~sres'.sent /\ sres'.err /= "nil")]_vars

\* C3 witness: a two-column submission whose first descriptor is valid and
\* whose second fails validation was refused.
C3_Witness ==
  /\ Len(sres.columns) = 2
  /\ ~FailsValidation(sres.columns[1])
  /\ sres.columns[1].Type \in PhysicalTypes
  /\ sres.columns[1].Field \in DOMAIN schema[tContentPiece]
  /\ sres.table = tContentPiece
  /\ FailsValidation(sres.columns[2])
  /\ sres.err \in {"InvalidColumnName", "InvalidColumnType"}

\* ------------------------------------------------------------------------
\* Properties of createContentPiece (checked under SpecTx)
\* ------------------------------------------------------------------------
\* handler h's createContentPiece returns in this step, its transaction
\* having inserted an entity row
CreateReturns(h) == pc[h] \in {"entityInserted", "pieceInserted"} /\ pc'[h] = "idle"

\* C4: whenever a createContentPiece call returns (content_piece insert
\* failed, commit failed, commit lost its acknowledgement, or success), the
\* tables hold the entity row of the id it allocated and its content_piece
\* row, or neither of them; a call that returns success holds both.
C4_CreateAtomic ==
  [][\A h \in Handlers :
       CreateReturns(h) =>
         /\ (txId[h] \in entity') <=> (txId[h] \in DOMAIN content_piece')
         /\ (last'.err = "nil" => txId[h] \in entity')]_vars

\* C4 witness: a create whose content_piece insert failed has returned and
\* the id it had allocated is in neither table, while another create holds
\* an open transaction.
C4_Witness ==
  /\ last.op = "create"
  /\ last.err = "InsertPieceFailed"
  /\ autoInc = 8
  /\ \E h \in Handlers : pc[h] = "pieceInserted" /\ txId[h] = 7
  /\ 6 \notin entity
  /\ 6 \notin DOMAIN content_piece

\* C5: every id a successful create returns is greater than every id that
\* had been returned when the call began (so calls made one after the other
\* return strictly increasing ids), and no id is returned twice, also when
\* creates overlap and are interleaved with deletes and rolled-back creates.
C5_IdsUniqueIncreasing ==
  \A i \in DOMAIN returned :
    /\ returned[i].id > returned[i].floor
    /\ \A j \in DOMAIN returned : i /= j => returned[i].id /= returned[j].id

\* C5 witness: two overlapping creates have returned, the one that allocated
\* the greater id first, after the sample piece was deleted.
C5_Witness ==
  /\ Len(returned) = 2
  /\ returned[1].id > returned[2].id
  /\ 3 \notin entity

\* ------------------------------------------------------------------------
\* Properties of the object operations (checked under Spec)
\* ------------------------------------------------------------------------
\* C6: in every reachable state every content_piece row's id is the id of
\* exactly one entity row.
C6_PieceHasEntity ==
  \A id \in DOMAIN content_piece : Cardinality({ e \in entity : e = id }) = 1

\* C6 witness: the sample piece has been deleted, a created piece exists and
\* has been updated, and the last call was a failed one.
C6_Witness ==
  /\ 3 \notin entity
  /\ \E id \in DOMAIN content_piece : id > 5 /\ content_piece[id].title = "Draft"
  /\ last.err /= "nil"

\* this step is a deleteContentPiece call that returned
DeleteReturns == last'.op = "delete" /\ pc' = pc

\* this step is an updateContentPiece call that returned
UpdateReturns == last'.op = "update" /\ pc' = pc

\* C9: deleteContentPiece of an id that has no entity row fails (NotFound);
\* it never reports success.
C9_DeleteMissingFails ==
  [][(DeleteReturns /\ last'.id \notin entity) => last'.err /= "nil"]_vars

\* C10: updateContentPiece of an id that has no content_piece row fails
\* (NotFound) and changes nothing; it never reports success.
C10_UpdateMissingFails ==
  [][(UpdateReturns /\ last'.id \notin DOMAIN content_piece) =>
       (last'.err /= "nil" /\ content_piece' = content_piece)]_vars

\* ------------------------------------------------------------------------
\* Properties of the composition index (checked under SpecCompose)
\* ------------------------------------------------------------------------
\* the composition edges that reference id as their contlet
ReferencingEdges(id) == { e \in cpc : e.contlet_id = id }

\* the composition edges whose owning piece is id
OwnedEdges(id) == { e \in cpc : e.content_piece_id = id }

\* the delete statement reached the store and the store answered
StoreAnswered == last'.cause /= "StoreFault"

\* C7: a delete of a contlet's entity that the store answers is rejected with
\* RestrictedDelete while an edge references the contlet, and then the
\* contlet, its entity and the edges stay; with no edge referencing it, the
\* delete succeeds and removes the contlet and its entity.
C7_AttachedContletRestricted ==
  [][(DeleteReturns /\ StoreAnswered /\ last'.id \in Contlets) =>
       IF ReferencingEdges(last'.id) /= {}
         THEN /\ last'.err /= "nil"
              /\ last'.cause = "RestrictedDelete"
              /\ last'.id \in entity'
              /\ last'.id \in Contlets'
              /\ cpc' = cpc
         ELSE /\ last'.err = "nil"
              /\ last'.id \notin entity'
              /\ last'.id \notin Contlets']_vars

\* C7 witness: the delete of the sample heading, attached to the sample piece,
\* was rejected and heading, entity and edge are in place.
C7_Witness ==
  /\ last = Result("delete", 4, "DeleteFailed", "RestrictedDelete")
  /\ 4 \in entity
  /\ 4 \in contlet_heading
  /\ ReferencingEdges(4) /= {}

\* C8: a delete of a content piece that the store answers succeeds, removes the
\* piece row and exactly the edges the piece owns, and leaves every contlet
\* those edges referenced, and its entity, in the store.
C8_PieceDeleteKeepsContlets ==
  [][(DeleteReturns /\ StoreAnswered /\ last'.id \in DOMAIN content_piece) =>
       /\ last'.err = "nil"
       /\ last'.id \notin DOMAIN content_piece'
       /\ last'.id \notin entity'
       /\ cpc' = cpc \ OwnedEdges(last'.id)
       /\ \A e \in OwnedEdges(last'.id) :
            e.contlet_id \in entity' /\ e.contlet_id \in Contlets']_vars

\* C8 witness: the sample piece was deleted, no edge is left, and the heading
\* and the paragraph it was composed of are still stored.
C8_Witness ==
  /\ last = Result("delete", 3, "nil", "none")
  /\ 3 \notin entity
  /\ cpc = {}
  /\ 4 \in contlet_heading /\ 4 \in entity
  /\ 5 \in contlet_paragraph /\ 5 \in entity

\* ------------------------------------------------------------------------
\* Properties of the piece list (checked under SpecList)
\* ------------------------------------------------------------------------
\* C16: after any sequence of creates, updates and deletes, a
\* getAllContentPieces call that succeeds returns every content_piece row
\* exactly once, with the row's class and title, ordered by id strictly
\* descending.
C16_ListAllDescending ==
  (last.op = "list" /\ last.err = "nil") =>
    LET rows == last.out.rows IN
      /\ { rows[i].ID : i \in DOMAIN rows } = DOMAIN content_piece
      /\ Len(rows) = Cardinality(DOMAIN content_piece)
      /\ \A i \in DOMAIN rows :
           /\ rows[i].Class = content_piece[rows[i].ID].class
           /\ rows[i].Title = content_piece[rows[i].ID].title
      /\ \A i \in 1..(Len(rows) - 1) : rows[i].ID > rows[i + 1].ID

\* C16 witness: the list was read after the sample piece was deleted and two
\* pieces were created, one of them updated or created as a draft; the newer
\* piece comes first.
C16_Witness ==
  /\ last.op = "list"
  /\ last.err = "nil"
  /\ 3 \notin DOMAIN content_piece
  /\ Len(last.out.rows) = 2
  /\ last.out.rows[1].ID = 7
  /\ last.out.rows[2].ID = 6
  /\ last.out.rows[2].Title = "Draft"

\* ------------------------------------------------------------------------
\* Properties of the ordered read (checked under SpecRead)
\* ------------------------------------------------------------------------
\* this step is a getPieceByID call that returned
GetReturns == last'.op = "get" /\ last' /= last

\* the edges of the piece whose contlet id has a row in none of the variant
\* tables, or in more than one
UnresolvedEdges(id) ==
  { e \in OwnedEdges(id) : Cardinality(VariantsOf(e.contlet_id)) /= 1 }

\* C11: a getPieceByID call that the store answers, of a piece with an edge
\* whose contlet id has a row in none of the variant tables or in more than
\* one, returns an IntegrityViolation error and no contlet list.
C11_IntegritySurfaced ==
  [][(GetReturns /\ StoreAnswered /\ UnresolvedEdges(last'.id) /= {}) =>
       (last'.err = "IntegrityViolation" /\ last'.out.rows = <<>>)]_vars

\* the edge of the piece that has exactly n edges of the piece before it in
\* sort-key order
EdgeAt(id, n) ==
  { e \in OwnedEdges(id) :
      Cardinality({ f \in OwnedEdges(id) : f.sort_order < e.sort_order }) = n }

\* C12: a getPieceByID call that succeeds returns one contlet per edge of the
\* piece and no other, the contlet of the edge with the i-th smallest sort
\* key at position i, whatever the order the edges were attached in; no two
\* edges of the piece have the same sort key.
C12_OrderedRead ==
  [][(GetReturns /\ last'.err = "nil") =>
       LET rows == last'.out.rows
           id == last'.id
       IN /\ Len(rows) = Cardinality(OwnedEdges(id))
          /\ \A e \in OwnedEdges(id), f \in OwnedEdges(id) :
               e.sort_order = f.sort_order => e = f
          /\ \A i \in DOMAIN rows :
               \E e \in EdgeAt(id, i - 1) : rows[i].ID = e.contlet_id]_vars

\* C12 witness: the sample piece, with the heading at 100 and the paragraph
\* at 200, then the heading attached at 300 and the paragraph at 150, was
\* read back as heading, paragraph, paragraph, heading (100, 150, 200, 300).
C12_Witness ==
  /\ last.op = "get"
  /\ last.err = "nil"
  /\ last.id = 3
  /\ cpc = { [content_piece_id |-> 3, contlet_id |-> 4, sort_order |-> 100],
             [content_piece_id |-> 3, contlet_id |-> 5, sort_order |-> 150],
             [content_piece_id |-> 3, contlet_id |-> 5, sort_order |-> 200],
             [content_piece_id |-> 3, contlet_id |-> 4, sort_order |-> 300] }
  /\ last.out.rows = << [ID |-> 4, Class |-> "heading"], [ID |-> 5, Class |-> "paragraph"],
                        [ID |-> 5, Class |-> "paragraph"], [ID |-> 4, Class |-> "heading"] >>

\* ------------------------------------------------------------------------
\* Properties of the relationship graph (checked under SpecLink)
\* ------------------------------------------------------------------------
\* the INSERT of handler h's link call runs in this step
LinkExecutes(h) == lk[h].pc = "called" /\ lk'[h].pc = "returned"

\* both handlers' link calls of one triple, begun while the triple was not
\* recorded, have been answered by the store on the triple
AnsweredPair(h, g) ==
  /\ h /= g
  /\ lk[h].pc = "returned" /\ lk[g].pc = "returned"
  /\ lk[h].triple = lk[g].triple
  /\ lk[h].fresh /\ lk[g].fresh
  /\ lk[h].err \in {"nil", "Conflict"} /\ lk[g].err \in {"nil", "Conflict"}

\* C13: no triple is recorded twice; a link statement on a recorded triple
\* fails with Conflict and changes nothing, and on a triple that is not
\* recorded (never linked, or unlinked since) whose references exist it
\* succeeds and records it once; of two link calls of one triple that overlap,
\* in every interleaving exactly one succeeds and the other fails with
\* Conflict.
C13_TripleUnique ==
  [][/\ \A t \in DOMAIN entity_relationships' : entity_relationships'[t] <= 1
     /\ \A h \in Handlers :
          LinkExecutes(h) =>
            /\ CopiesOf(lk[h].triple) >= 1 =>
                 (lk'[h].err = "Conflict" /\ entity_relationships' = entity_relationships)
            /\ (CopiesOf(lk[h].triple) = 0 /\ ReferencesHold(lk[h].triple)) =>
                 (lk'[h].err = "nil" /\ entity_relationships'[lk[h].triple] = 1)
     /\ \A h \in Handlers, g \in Handlers :
          AnsweredPair(h, g)' =>
            { lk'[h].err, lk'[g].err } = {"nil", "Conflict"}]_vars

\* C13 witness: after an unlink that succeeded, both handlers called link for
\* the triple at once; one succeeded, one got Conflict, and the triple is
\* recorded once.
C13_Witness ==
  /\ last = Result("unlink", 0, "nil", "none")
  /\ AnsweredPair("h1", "h2")
  /\ lk["h1"].err = "Conflict"
  /\ lk["h2"].err = "nil"
  /\ lk["h1"].triple = <<3, "related_to", 4>>
  /\ CopiesOf(<<3, "related_to", 4>>) = 1

\* ------------------------------------------------------------------------
\* Properties of the composed statement (checked under SpecSchema)
\* ------------------------------------------------------------------------
\* the extra-attribute tokens the design allows
ExtraAllowlist == {xAutoIncrement}

\* the quote character that ends a quoted default
HasQuote(s) == \E i \in DOMAIN s : s[i] = "'"

\* C14: in every statement that is executed, each column's Extra is empty or
\* a token of the allowlist, and no default that holds a quote character is
\* in the statement as submitted.
C14_ExtraAndDefaultSafe ==
  (SchemaCalled /\ sres.sent) =>
    \A i \in DOMAIN sres.columns :
      LET col == sres.columns[i] IN
        /\ col.Extra \in ExtraAllowlist \cup {sEmpty}
        /\ (col.Default.Valid /\ HasQuote(col.Default.String)) =>
             ~Contains(sres.query, kwDefault \o col.Default.String \o kwQuote)

\* statement-delimiter and quote characters: semicolon, single quote, double
\* quote, the identifier quote U+0060
DelimiterOrQuote == {";", "'", "\"", BackTick}

\* C15: a submission with a column whose type text holds a statement
\* delimiter or a quote character returns an error and no statement is
\* executed.
C15_TypeCharsRejected ==
  (SchemaCalled /\ \E i \in DOMAIN sres.columns :
                     \E j \in DOMAIN sres.columns[i].Type :
                       sres.columns[i].Type[j] \in DelimiterOrQuote) =>
    (sres.err /= "nil" /\ ~sres.sent)

\* C17: a call with a table name of the identifier grammar and zero columns
\* returns success, executes no statement and leaves the schema as it was.
C17_ZeroColumnsNoOp ==
  [][(sres'.err /= "none" /\ sres'.columns = <<>> /\ InGrammar(sres'.table)) =>
       (sres'.err = "nil" /\ ~sres'.sent /\ schema' = schema)]_vars

\* C17 witness: after a change of content_piece.title was applied, a call for
\* content_piece with zero columns returned success without a statement and
\* the changed column is as it was left.
C17_Witness ==
  /\ sres.table = tContentPiece
  /\ sres.columns = <<>>
  /\ sres.err = "nil"
  /\ ~sres.sent
  /\ schema[tContentPiece][fTitle].Default = DefaultOf(sActive)

\* ------------------------------------------------------------------------
\* Properties of seedSampleData (checked under SpecSeed)
\* ------------------------------------------------------------------------
\* this step is a seedSampleData call that returned
SeedReturns == last'.op = "seed" /\ pc' = pc

\* the rows of every table
TableRows ==
  <<entity, content_piece, cpc, contlet_paragraph, contlet_image, contlet_heading,
    taxonomy, tag, entity_tags, link_class, entity_relationships>>

\* C18: a seedSampleData call made while the entity table holds one or more
\* rows inserts nothing, and after any number of calls there is at most one
\* taxonomy, one tag, one heading and one paragraph.
C18_SeedsOnlyEmptyStore ==
  [][SeedReturns =>
       /\ entity /= {} => TableRows' = TableRows
       /\ Cardinality(taxonomy') <= 1
       /\ Cardinality(DOMAIN tag') <= 1
       /\ Cardinality(contlet_heading') <= 1
       /\ Cardinality(contlet_paragraph') <= 1]_vars

\* ------------------------------------------------------------------------
\* The reach of deleteContentPiece over the classes (checked under Spec)
\* ------------------------------------------------------------------------
\* the objects that are not content pieces and that no composition edge
\* references: taxonomies, tags and unattached contlets
NonPieceObjects ==
  taxonomy \cup Tags \cup { c \in Contlets : ReferencingEdges(c) = {} }

\* the class rows of id in the given tables of the non-piece classes
ClassRows(id, taxonomies, tags, paragraphs, images, headings) ==
  <<id \in taxonomies,
    IF id \in DOMAIN tags THEN <<tags[id]>> ELSE <<>>,
    id \in paragraphs, id \in images, id \in headings>>

\* the tags filed under the taxonomy id
TagsUnder(id) == { t \in DOMAIN tag : tag[t] = id }

\* C19 as stated: a deleteContentPiece call on the entity of a taxonomy, a
\* tag or an unattached contlet leaves the object's entity row and class row
\* unchanged.
C19_OnlyPiecesAffected ==
  [][(DeleteReturns /\ last'.id \in NonPieceObjects) =>
       /\ last'.id \in entity'
       /\ ClassRows(last'.id, taxonomy', tag', contlet_paragraph',
                    contlet_image', contlet_heading')
            = ClassRows(last'.id, taxonomy, tag, contlet_paragraph,
                        contlet_image, contlet_heading)]_vars

\* C19 amended: a deleteContentPiece call that the store answers on the
\* entity of a taxonomy, a tag or an unattached contlet deletes the object
\* like a piece: the call returns nil, the entity row and the class row are
\* gone and every other entity and every piece row stays; only a taxonomy
\* that still has tags is rejected with RestrictedDelete and then no table
\* changes.
C19_DeletesAnyClass ==
  [][(DeleteReturns /\ StoreAnswered /\ last'.id \in NonPieceObjects) =>
       IF TagsUnder(last'.id) /= {}
         THEN /\ last'.err /= "nil"
              /\ last'.cause = "RestrictedDelete"
              /\ TableRows' = TableRows
         ELSE /\ last'.err = "nil"
              /\ entity' = entity \ {last'.id}
              /\ last'.id \notin taxonomy' \cup Tags' \cup Contlets'
              /\ content_piece' = content_piece]_vars

\* the sample tag 2 was deleted through deleteContentPiece, and then the
\* taxonomy 1 it was filed under
C19_Witness ==
  /\ last = Result("delete", 1, "nil", "none")
  /\ 1 \notin entity /\ 2 \notin entity
  /\ taxonomy = {} /\ tag = <<>>
  /\ 3 \in Pieces

====
